---- MODULE Spec2Model ----
(***************************************************************************)
(* Team billing server (sample_code/team_billing/server.py).               *)
(*                                                                         *)
(* The committed database is one variable per table.  Every request        *)
(* handler opens its own Session; a handler that reads rows and later      *)
(* commits is two steps (the read, then the commit), so that handlers of   *)
(* different callers interleave between a read and a commit, as they do    *)
(* when several server processes share the database at read-committed      *)
(* isolation.  Rows a session has added or flushed but not committed are   *)
(* held in the session and are invisible to every other session.           *)
(*                                                                         *)
(* uuid4 identifiers are modelled by the position of the row in its table  *)
(* (fresh, never reused).  float amounts are modelled by integers.  What a   *)
(* handler returns is an operator ...Response of the state it reads and of *)
(* its request; it is not kept in the state.                               *)
(* created_at / joined_at of Team, TeamMember, Invitation, Invoice and     *)
(* Payment are read by no handler and are left out; recorded_at of         *)
(* UsageRecord is kept.                                                    *)
(***************************************************************************)
EXTENDS Integers, Sequences, FiniteSets, TLC

VARIABLES
    team,        \* table Team: sequence of rows, id = position
    member,      \* table TeamMember: set of rows, primary key (team_id, user_id)
    invitation,  \* table Invitation: sequence of rows, id = token = position
    usage,       \* table UsageRecord: sequence of rows in commit order
    invoice,     \* table Invoice: sequence of rows, id = position
    lineitem,    \* table InvoiceLineItem: set of rows
    payment,     \* table Payment: sequence of rows
    now,         \* the wall clock read by datetime.now()
    sess         \* per caller: the handler it has in flight, if any

vars == <<team, member, invitation, usage, invoice, lineitem, payment, now, sess>>
membership == <<team, member, invitation>>
billing == <<usage, invoice, lineitem, payment>>

----------------------------------------------------------------------------
(* Bounds of the model *)

MaxTeams == 2
MaxInvitations == 1
MaxUsage == 2
MaxInvoices == 1
MaxPayments == 1
MaxUsagePaid == 1
MaxInvoicesPaid == 2
MaxPaymentsPaid == 2
MaxUsageTimed == 2
MaxInvoicesTimed == 2
MaxRows == 2
MaxTicks == 2
TicksPerDay == 2
DaysPerMonth == 2

(* Program constant: December, the month generate_invoice tests for *)
December == 12

Sessions == {"s1", "s2"}
Users == {"user_123", "user_456", "user_789"}
Owners == {"user_123", "user_456"}
TeamNames == {"Test Team"}
Emails == {"newuser@example.com"}
Roles == {"Owner", "Admin", "Member"}
Methods == {"stripe"}
TeamIds == 1..MaxTeams
Tokens == 1..MaxInvitations
InvoiceIds == 1..MaxInvoicesPaid

(* the requests to /usage/log: two by the same user, one by another user, one
   for another team, one of another usage_type *)
UsageLogRequests ==
    {[team_id |-> 1, user_id |-> "user_123", usage_type |-> "inference",
      amount |-> 1000, unit |-> "tokens", cost |-> 1],
     [team_id |-> 1, user_id |-> "user_123", usage_type |-> "inference",
      amount |-> 500, unit |-> "tokens", cost |-> 3],
     [team_id |-> 1, user_id |-> "user_456", usage_type |-> "inference",
      amount |-> 2000, unit |-> "tokens", cost |-> 2],
     [team_id |-> 2, user_id |-> "user_123", usage_type |-> "inference",
      amount |-> 2000, unit |-> "tokens", cost |-> 2],
     [team_id |-> 1, user_id |-> "user_456", usage_type |-> "training",
      amount |-> 1000, unit |-> "tokens", cost |-> 1]}

(* a request to /usage/log with a negative amount and a negative cost *)
NegativeUsageLogRequests ==
    {[team_id |-> 1, user_id |-> "user_123", usage_type |-> "inference",
      amount |-> -500, unit |-> "tokens", cost |-> -3]}

(* a role a request to /teams/invite may carry that is none of the three *)
OtherRoles == {"Superuser"}

(* the team ids the requests to /billing/invoice/generate name *)
BilledTeams == {r.team_id : r \in UsageLogRequests}

----------------------------------------------------------------------------
(* Session bookkeeping *)

Idle == [pc |-> "idle"]
Ready(s) == sess[s] = Idle

(* the handler of session s returns *)
Return(s) == sess' = [sess EXCEPT ![s] = Idle]

(* the handler of session s goes on with local state r *)
Continue(s, r) == sess' = [sess EXCEPT ![s] = r]

(* the api_key column default: a fresh uuid4, distinct from every id *)
NewApiKey(id) == <<"api_key", id>>

----------------------------------------------------------------------------
(* POST /teams/create *)

(* Team(...), session.add(team), session.flush(): the row is in the session's
   transaction only *)
CreateTeamFlush(s, team_name, owner_user_id) ==
    /\ Ready(s)
    /\ Continue(s, [pc |-> "create_team", team_name |-> team_name,
                     owner_user_id |-> owner_user_id])
    /\ UNCHANGED <<membership, billing, now>>

(* {"team_id": team.id, "api_key": team.api_key} *)
CreateTeamResponse(s) ==
    [status |-> 200, team_id |-> Len(team) + 1, api_key |-> NewApiKey(Len(team) + 1)]

(* mutant: the owner's TeamMember row is never added *)
CreateTeamCommitNoOwner(s) ==
    /\ sess[s].pc = "create_team"
    /\ team' = Append(team, [name |-> sess[s].team_name,
                             owner_id |-> sess[s].owner_user_id,
                             api_key |-> CreateTeamResponse(s).api_key])
    /\ member' = member
    /\ Return(s)
    /\ UNCHANGED <<invitation, billing, now>>

(* TeamMember(role="Owner"), session.add, session.commit(): the Team row and
   the owner's row become visible together *)
CreateTeamCommit(s) ==
    /\ sess[s].pc = "create_team"
    /\ team' = Append(team, [name |-> sess[s].team_name,
                             owner_id |-> sess[s].owner_user_id,
                             api_key |-> CreateTeamResponse(s).api_key])
    /\ member' = member \cup {[team_id |-> CreateTeamResponse(s).team_id,
                               user_id |-> sess[s].owner_user_id,
                               role |-> "Owner"]}
    /\ Return(s)
    /\ UNCHANGED <<invitation, billing, now>>

----------------------------------------------------------------------------
(* POST /teams/invite *)

(* select(TeamMember).where(team_id == .., user_id == ..) *)
MemberRows(team_id, user_id) ==
    {m \in member : m.team_id = team_id /\ m.user_id = user_id}

(* mutant: the inviter is looked up by user_id alone *)
MayInviteAnyTeam(team_id, inviter_id) ==
    \E m \in member : m.user_id = inviter_id /\ m.role \in {"Owner", "Admin"}

(* not (not inviter or inviter.role not in ('Owner', 'Admin')) *)
MayInvite(team_id, inviter_id) ==
    \E m \in MemberRows(team_id, inviter_id) : m.role \in {"Owner", "Admin"}

(* 403, or {"invitation_token": invitation.token} *)
InviteResponse(team_id, inviter_id) ==
    IF MayInvite(team_id, inviter_id)
    THEN [status |-> 200, invitation_token |-> Len(invitation) + 1]
    ELSE [status |-> 403]

InviteTeamMember(s, team_id, email, role, inviter_id) ==
    /\ Ready(s)
    /\ IF InviteResponse(team_id, inviter_id).status = 200
       THEN invitation' = Append(invitation,
                [team_id |-> team_id, email |-> email, role |-> role,
                 inviter_id |-> inviter_id, accepted |-> FALSE])
       ELSE invitation' = invitation
    /\ UNCHANGED <<team, member, billing, now, sess>>

----------------------------------------------------------------------------
(* POST /teams/join *)

(* mutant: the accepted flag is not tested *)
JoinTeamLookupResponseNoAcceptedCheck(invitation_token) ==
    IF invitation_token \notin 1..Len(invitation) THEN [status |-> 404]
    ELSE [status |-> 0]

(* select(Invitation).where(token == ..).first(): 404 when there is none, 400
   when the row read says accepted; status 0: no response yet, the handler
   goes on *)
JoinTeamLookupResponse(invitation_token) ==
    IF invitation_token \notin 1..Len(invitation) THEN [status |-> 404]
    ELSE IF invitation[invitation_token].accepted THEN [status |-> 400]
    ELSE [status |-> 0]

(* mutant: the member gets the role Member, whatever the invitation says *)
JoinTeamLookupDefaultRole(s, invitation_token, user_id) ==
    /\ Ready(s)
    /\ IF JoinTeamLookupResponse(invitation_token).status = 0
       THEN Continue(s, [pc |-> "join_team", invitation_token |-> invitation_token,
                         user_id |-> user_id,
                         team_id |-> invitation[invitation_token].team_id,
                         role |-> "Member"])
       ELSE Return(s)
    /\ UNCHANGED <<membership, billing, now>>

JoinTeamLookup(s, invitation_token, user_id) ==
    /\ Ready(s)
    /\ IF JoinTeamLookupResponse(invitation_token).status = 0
       THEN Continue(s, [pc |-> "join_team", invitation_token |-> invitation_token,
                         user_id |-> user_id,
                         team_id |-> invitation[invitation_token].team_id,
                         role |-> invitation[invitation_token].role])
       ELSE Return(s)
    /\ UNCHANGED <<membership, billing, now>>

(* mutant: TeamMember has no primary key on (team_id, user_id) *)
JoinTeamCommitResponseNoKey(s) == [status |-> 200]

(* session.commit(): the INSERT violates the primary key (team_id, user_id)
   when the user is already a member; the IntegrityError is not caught, the
   transaction is rolled back and the caller gets 500 *)
JoinTeamCommitResponse(s) ==
    IF MemberRows(sess[s].team_id, sess[s].user_id) # {}
    THEN [status |-> 500]
    ELSE [status |-> 200]

(* mutant: the UPDATE of the invitation is committed on its own, also when
   the INSERT of the member fails *)
JoinTeamCommitFlagAlways(s) ==
    /\ sess[s].pc = "join_team"
    /\ member' = IF JoinTeamCommitResponse(s).status = 200
                 THEN member \cup {[team_id |-> sess[s].team_id,
                                    user_id |-> sess[s].user_id,
                                    role |-> sess[s].role]}
                 ELSE member
    /\ invitation' = [invitation EXCEPT ![sess[s].invitation_token].accepted = TRUE]
    /\ Return(s)
    /\ UNCHANGED <<team, billing, now>>

(* session.add(member); invitation.accepted = True; session.commit().  The
   UPDATE sets accepted whatever the flag is by then. *)
JoinTeamCommit(s) ==
    /\ sess[s].pc = "join_team"
    /\ IF JoinTeamCommitResponse(s).status = 200
       THEN /\ member' = member \cup {[team_id |-> sess[s].team_id,
                                       user_id |-> sess[s].user_id,
                                       role |-> sess[s].role]}
            /\ invitation' = [invitation EXCEPT
                                 ![sess[s].invitation_token].accepted = TRUE]
       ELSE UNCHANGED <<member, invitation>>
    /\ Return(s)
    /\ UNCHANGED <<team, billing, now>>

----------------------------------------------------------------------------
(* GET /teams/{team_id}/apikey *)

(* mutant: select(Team).first() without the where clause *)
GetTeamApiKeyResponseFirstTeam(team_id, user_id) ==
    IF MemberRows(team_id, user_id) = {} THEN [status |-> 403]
    ELSE IF team_id \notin 1..Len(team) THEN [status |-> 404]
    ELSE [status |-> 200, api_key |-> team[1].api_key]

(* mutant: the membership test is by user_id alone *)
GetTeamApiKeyResponseAnyTeam(team_id, user_id) ==
    IF {m \in member : m.user_id = user_id} = {} THEN [status |-> 403]
    ELSE IF team_id \notin 1..Len(team) THEN [status |-> 404]
    ELSE [status |-> 200, api_key |-> team[team_id].api_key]

(* the member row is looked up first (403 when there is none), the team
   second (404 when there is none) *)
GetTeamApiKeyResponse(team_id, user_id) ==
    IF MemberRows(team_id, user_id) = {} THEN [status |-> 403]
    ELSE IF team_id \notin 1..Len(team) THEN [status |-> 404]
    ELSE [status |-> 200, api_key |-> team[team_id].api_key]

(* reads only *)
GetTeamApiKey(s, team_id, user_id) ==
    /\ Ready(s)
    /\ GetTeamApiKeyResponse(team_id, user_id).status \in {200, 403, 404}
    /\ UNCHANGED vars

----------------------------------------------------------------------------
(* datetime: an instant is a number of ticks; its fields are year, month
   (1..12), day (1..DaysPerMonth) and the time of day in ticks *)

TicksPerMonth == TicksPerDay * DaysPerMonth

Fields(t) ==
    [year |-> t \div (December * TicksPerMonth),
     month |-> ((t \div TicksPerMonth) % December) + 1,
     day |-> ((t % TicksPerMonth) \div TicksPerDay) + 1,
     tod |-> t % TicksPerDay]

DateTime(f) ==
    ((f.year * December + (f.month - 1)) * DaysPerMonth + (f.day - 1)) * TicksPerDay
        + f.tod

(* now.replace(day=1, hour=0, minute=0, second=0, microsecond=0) *)
PeriodStart(t) == DateTime([Fields(t) EXCEPT !.day = 1, !.tod = 0])

(* now.replace(year=now.year+1, month=1, day=1) in December, otherwise
   now.replace(month=now.month+1, day=1): the time of day is kept *)
PeriodEnd(t) ==
    IF Fields(t).month = December
    THEN DateTime([Fields(t) EXCEPT !.year = @ + 1, !.month = 1, !.day = 1])
    ELSE DateTime([Fields(t) EXCEPT !.month = @ + 1, !.day = 1])

(* the clock when the server starts: the last day of a December *)
StartTime == DateTime([year |-> 0, month |-> December, day |-> DaysPerMonth, tod |-> 0])

(* the bodies POSTed to /billing/invoice/generate: team_id alone, or team_id
   and the bounds of the month before the one the server starts in *)
InvoiceGenerateBodies ==
    {[team_id |-> t, period |-> p] :
        t \in BilledTeams,
        p \in {<<>>, <<PeriodStart(StartTime) - TicksPerMonth, PeriodStart(StartTime)>>}}

(* time passes *)
Tick ==
    /\ now' = now + 1
    /\ UNCHANGED <<membership, billing, sess>>

----------------------------------------------------------------------------
(* POST /usage/log *)

(* UsageRecord(...): recorded_at is datetime.now() when the row object is
   made; session.add(usage) *)
LogUsageAdd(s, request) ==
    /\ Ready(s)
    /\ Continue(s, [pc |-> "log_usage",
                     row |-> [team_id |-> request.team_id,
                              user_id |-> request.user_id,
                              usage_type |-> request.usage_type,
                              amount |-> request.amount,
                              unit |-> request.unit,
                              cost |-> request.cost,
                              recorded_at |-> now]])
    /\ UNCHANGED <<membership, billing, now>>

(* mutant: the cost logged is added to the total of the team's pending
   invoices *)
LogUsageCommitIntoInvoice(s) ==
    /\ sess[s].pc = "log_usage"
    /\ usage' = Append(usage, sess[s].row)
    /\ invoice' = [n \in 1..Len(invoice) |->
                     IF invoice[n].team_id = sess[s].row.team_id
                           /\ invoice[n].status = "pending"
                     THEN [invoice[n] EXCEPT !.total = @ + sess[s].row.cost]
                     ELSE invoice[n]]
    /\ Return(s)
    /\ UNCHANGED <<membership, lineitem, payment, now>>

(* mutant: a row equal to one already in the table is not inserted *)
LogUsageCommitDedup(s) ==
    /\ sess[s].pc = "log_usage"
    /\ usage' = IF \E i \in 1..Len(usage) : usage[i] = sess[s].row
                THEN usage
                ELSE Append(usage, sess[s].row)
    /\ Return(s)
    /\ UNCHANGED <<membership, invoice, lineitem, payment, now>>

(* {"message": "Usage logged."} *)
LogUsageResponse(s) == [status |-> 200, message |-> "Usage logged."]

(* session.commit(): the INSERT; nothing is read, nothing is checked *)
LogUsageCommit(s) ==
    /\ sess[s].pc = "log_usage"
    /\ usage' = Append(usage, sess[s].row)
    /\ Return(s)
    /\ UNCHANGED <<membership, invoice, lineitem, payment, now>>

----------------------------------------------------------------------------
(* POST /billing/invoice/generate *)

RECURSIVE SumCost(_)
SumCost(rows) ==
    IF rows = {} THEN 0
    ELSE LET r == CHOOSE r \in rows : TRUE IN r.cost + SumCost(rows \ {r})

(* mutant: the where clause does not test usage_type *)
MatchingAnyType(team_id, period_start, period_end) ==
    {i \in 1..Len(usage) :
        /\ usage[i].team_id = team_id
        /\ usage[i].recorded_at >= period_start
        /\ usage[i].recorded_at < period_end}

(* mutant: the where clause does not test team_id *)
MatchingAnyTeam(team_id, period_start, period_end) ==
    {i \in 1..Len(usage) :
        /\ usage[i].usage_type = "inference"
        /\ usage[i].recorded_at >= period_start
        /\ usage[i].recorded_at < period_end}

(* the where clause: the positions of the rows selected *)
Matching(team_id, period_start, period_end) ==
    {i \in 1..Len(usage) :
        /\ usage[i].team_id = team_id
        /\ usage[i].usage_type = "inference"
        /\ usage[i].recorded_at >= period_start
        /\ usage[i].recorded_at < period_end}

(* .group_by(UsageRecord.user_id) with no aggregate in the select list: one
   row per user_id, its columns taken from one row of the group; which row
   is not defined.  Every possible result, as a choice of one position per
   user. *)
GroupBy(matching) ==
    LET users == {usage[i].user_id : i \in matching} IN
    {pick \in [users -> matching] : \A u \in users : usage[pick[u]].user_id = u}

(* the rows m of member_breakdown: m.user_id, m.amount, m.cost *)
MemberBreakdown(pick) ==
    {[user_id |-> u, amount |-> usage[pick[u]].amount, cost |-> usage[pick[u]].cost] :
        u \in DOMAIN pick}

(* the period, the select, total = sum([m.cost or 0 for m in member_breakdown]),
   Invoice(...) and the InvoiceLineItem(...) rows added to the session *)
GenerateInvoiceRead(s, team_id) ==
    /\ Ready(s)
    /\ \E pick \in GroupBy(Matching(team_id, PeriodStart(now), PeriodEnd(now))) :
           Continue(s, [pc |-> "generate_invoice",
                        team_id |-> team_id,
                        period_start |-> PeriodStart(now),
                        period_end |-> PeriodEnd(now),
                        total |-> SumCost(MemberBreakdown(pick)),
                        member_breakdown |-> MemberBreakdown(pick)])
    /\ UNCHANGED <<membership, billing, now>>

(* InvoiceGenerateRequest has the one field team_id: whatever else the body
   of the request carries (here: period, <<>> or <<period_start, period_end>>)
   is dropped when the body is parsed, and the handler sees team_id only *)
InvoiceGenerateRequest(body) == [team_id |-> body.team_id]

GenerateInvoice(s, body) ==
    GenerateInvoiceRead(s, InvoiceGenerateRequest(body).team_id)

(* the response body: the invoice and its member_breakdown *)
GenerateInvoiceResponse(s) ==
    [status |-> 200, invoice_id |-> Len(invoice) + 1, team_id |-> sess[s].team_id,
     total |-> sess[s].total, invoice_status |-> "pending",
     member_breakdown |-> {[user_id |-> m.user_id, tokens_used |-> m.amount,
                            cost |-> m.cost] : m \in sess[s].member_breakdown}]

(* the line items of invoice_id made from the rows of member_breakdown *)
LineItems(invoice_id, member_breakdown) ==
    {[invoice_id |-> invoice_id, user_id |-> m.user_id, tokens_used |-> m.amount,
      cost |-> m.cost] : m \in member_breakdown}

(* mutant: the rows invoiced are deleted from the ledger *)
GenerateInvoiceCommitConsume(s) ==
    /\ sess[s].pc = "generate_invoice"
    /\ invoice' = Append(invoice, [team_id |-> sess[s].team_id,
                                   period_start |-> sess[s].period_start,
                                   period_end |-> sess[s].period_end,
                                   total |-> sess[s].total,
                                   status |-> "pending"])
    /\ lineitem' = lineitem \cup
           LineItems(Len(invoice) + 1, sess[s].member_breakdown)
    /\ usage' = SelectSeq(usage, LAMBDA r :
                    ~(/\ r.team_id = sess[s].team_id
                      /\ r.usage_type = "inference"
                      /\ r.recorded_at >= sess[s].period_start
                      /\ r.recorded_at < sess[s].period_end))
    /\ Return(s)
    /\ UNCHANGED <<membership, payment, now>>

(* mutant: the line items are never added to the session *)
GenerateInvoiceCommitNoItems(s) ==
    /\ sess[s].pc = "generate_invoice"
    /\ invoice' = Append(invoice, [team_id |-> sess[s].team_id,
                                   period_start |-> sess[s].period_start,
                                   period_end |-> sess[s].period_end,
                                   total |-> sess[s].total,
                                   status |-> "pending"])
    /\ lineitem' = lineitem
    /\ Return(s)
    /\ UNCHANGED <<membership, usage, payment, now>>

(* mutant: an invoice of the same team and period is replaced, not added *)
GenerateInvoiceCommitReplace(s) ==
    /\ sess[s].pc = "generate_invoice"
    /\ LET same == {i \in 1..Len(invoice) :
                        /\ invoice[i].team_id = sess[s].team_id
                        /\ invoice[i].period_start = sess[s].period_start
                        /\ invoice[i].period_end = sess[s].period_end}
           row == [team_id |-> sess[s].team_id,
                   period_start |-> sess[s].period_start,
                   period_end |-> sess[s].period_end,
                   total |-> sess[s].total,
                   status |-> "pending"]
       IN IF same = {}
          THEN /\ invoice' = Append(invoice, row)
               /\ lineitem' = lineitem \cup
                      LineItems(Len(invoice) + 1, sess[s].member_breakdown)
          ELSE LET i == CHOOSE i \in same : TRUE IN
               /\ invoice' = [invoice EXCEPT ![i] = row]
               /\ lineitem' = {l \in lineitem : l.invoice_id # i} \cup
                      LineItems(i, sess[s].member_breakdown)
    /\ Return(s)
    /\ UNCHANGED <<membership, usage, payment, now>>

(* session.commit(): the Invoice row and its InvoiceLineItem rows are
   inserted in one transaction *)
GenerateInvoiceCommit(s) ==
    /\ sess[s].pc = "generate_invoice"
    /\ invoice' = Append(invoice, [team_id |-> sess[s].team_id,
                                   period_start |-> sess[s].period_start,
                                   period_end |-> sess[s].period_end,
                                   total |-> sess[s].total,
                                   status |-> "pending"])
    /\ lineitem' = lineitem \cup
           LineItems(GenerateInvoiceResponse(s).invoice_id, sess[s].member_breakdown)
    /\ Return(s)
    /\ UNCHANGED <<membership, usage, payment, now>>

----------------------------------------------------------------------------
(* POST /billing/invoice/{invoice_id}/pay *)

(* mutant: the invoice is not looked up *)
PayInvoiceLookupResponseNoCheck(invoice_id) == [status |-> 0]

(* mutant: an invoice that is paid already is refused *)
PayInvoiceLookupResponseRejectPaid(invoice_id) ==
    IF invoice_id \notin 1..Len(invoice) THEN [status |-> 404]
    ELSE IF invoice[invoice_id].status = "paid" THEN [status |-> 400]
    ELSE [status |-> 0]

(* select(Invoice).where(id == ..).first(): 404 when there is none; status 0:
   no response yet, the handler goes on *)
PayInvoiceLookupResponse(invoice_id) ==
    IF invoice_id \notin 1..Len(invoice) THEN [status |-> 404] ELSE [status |-> 0]

PayInvoiceLookup(s, invoice_id, method) ==
    /\ Ready(s)
    /\ IF PayInvoiceLookupResponse(invoice_id).status = 0
       THEN Continue(s, [pc |-> "pay_invoice", invoice_id |-> invoice_id,
                         method |-> method])
       ELSE Return(s)
    /\ UNCHANGED <<membership, billing, now>>

(* {"status": "paid"} *)
PayInvoiceResponse(s) == [status |-> 200, invoice_status |-> "paid"]

(* mutant: the Payment row is committed, the status of the invoice is not *)
PayInvoiceCommitPaymentOnly(s) ==
    /\ sess[s].pc = "pay_invoice"
    /\ payment' = Append(payment, [invoice_id |-> sess[s].invoice_id,
                                   method |-> sess[s].method,
                                   amount |-> 0,
                                   status |-> PayInvoiceResponse(s).invoice_status])
    /\ Return(s)
    /\ UNCHANGED <<membership, usage, invoice, lineitem, now>>

(* mutant: the Payment row is added only if the invoice is pending when the
   transaction commits *)
PayInvoiceCommitOnce(s) ==
    /\ sess[s].pc = "pay_invoice"
    /\ invoice' = [invoice EXCEPT ![sess[s].invoice_id].status = "paid"]
    /\ payment' = IF invoice[sess[s].invoice_id].status = "paid"
                  THEN payment
                  ELSE Append(payment, [invoice_id |-> sess[s].invoice_id,
                                        method |-> sess[s].method,
                                        amount |-> 0,
                                        status |-> PayInvoiceResponse(s).invoice_status])
    /\ Return(s)
    /\ UNCHANGED <<membership, usage, lineitem, now>>

(* invoice.status = "paid"; Payment(amount=0, status="paid"); session.commit() *)
PayInvoiceCommit(s) ==
    /\ sess[s].pc = "pay_invoice"
    /\ invoice' = [invoice EXCEPT ![sess[s].invoice_id].status = "paid"]
    /\ payment' = Append(payment, [invoice_id |-> sess[s].invoice_id,
                                   method |-> sess[s].method,
                                   amount |-> 0,
                                   status |-> PayInvoiceResponse(s).invoice_status])
    /\ Return(s)
    /\ UNCHANGED <<membership, usage, lineitem, now>>

----------------------------------------------------------------------------
Init ==
    /\ team = <<>>
    /\ member = {}
    /\ invitation = <<>>
    /\ usage = <<>>
    /\ invoice = <<>>
    /\ lineitem = {}
    /\ payment = <<>>
    /\ now = StartTime
    /\ sess = [s \in Sessions |-> Idle]

Pending(pc) == Cardinality({s \in Sessions : sess[s].pc = pc})

(* the membership handlers, with at most nt Teams and ni Invitations *)
MembershipStep(nt, ni) ==
    \/ \E s \in Sessions, n \in TeamNames, u \in Owners :
           /\ Len(team) + Pending("create_team") < nt
           /\ CreateTeamFlush(s, n, u)
    \/ \E s \in Sessions : CreateTeamCommit(s)
    \/ \E s \in Sessions, t \in 1..nt, e \in Emails, r \in Roles, u \in Users :
           /\ Len(invitation) < ni \/ ~MayInvite(t, u)
           /\ InviteTeamMember(s, t, e, r, u)
    \/ \E s \in Sessions, k \in 1..ni, u \in Users : JoinTeamLookup(s, k, u)
    \/ \E s \in Sessions : JoinTeamCommit(s)
    \/ \E s \in Sessions, t \in 1..nt, u \in Users : GetTeamApiKey(s, t, u)

NextMembership == MembershipStep(MaxTeams, MaxInvitations)

SpecMembership == Init /\ [][NextMembership]_vars

(* the billing handlers, with at most nu UsageRecords, ni Invoices and np
   Payments *)
BillingStep(nu, ni, np) ==
    \/ \E s \in Sessions, r \in UsageLogRequests :
           /\ Len(usage) + Pending("log_usage") < nu
           /\ LogUsageAdd(s, r)
    \/ \E s \in Sessions : LogUsageCommit(s)
    \/ \E s \in Sessions, t \in BilledTeams :
           /\ Len(invoice) + Pending("generate_invoice") < ni
           /\ GenerateInvoiceRead(s, t)
    \/ \E s \in Sessions : GenerateInvoiceCommit(s)
    \/ \E s \in Sessions, i \in 1..ni, m \in Methods :
           /\ Len(payment) + Pending("pay_invoice") < np
           /\ PayInvoiceLookup(s, i, m)
    \/ \E s \in Sessions : PayInvoiceCommit(s)

(* the ledger in detail: more usage, one invoice *)
NextBilling == BillingStep(MaxUsage, MaxInvoices, MaxPayments)

SpecBilling == Init /\ [][NextBilling]_vars

(* payment in detail: more invoices and payments, less usage *)
NextPayment == BillingStep(MaxUsagePaid, MaxInvoicesPaid, MaxPaymentsPaid)

SpecPayment == Init /\ [][NextPayment]_vars

(* the ledger as time passes: usage and invoices, and the clock *)
NextLedger ==
    \/ \E s \in Sessions, r \in UsageLogRequests :
           /\ Len(usage) + Pending("log_usage") < MaxUsageTimed
           /\ LogUsageAdd(s, r)
    \/ \E s \in Sessions : LogUsageCommit(s)
    \/ \E s \in Sessions, body \in InvoiceGenerateBodies :
           /\ Len(invoice) + Pending("generate_invoice") < MaxInvoicesTimed
           /\ GenerateInvoice(s, body)
    \/ \E s \in Sessions : GenerateInvoiceCommit(s)
    \/ (now < StartTime + MaxTicks /\ Tick)

SpecLedger == Init /\ [][NextLedger]_vars

(* the rows the database may still take: MaxRows, less the rows of Team,
   Invitation, UsageRecord, Invoice and Payment and the handlers under way *)
Room ==
    MaxRows - (Len(team) + Len(invitation) + Len(usage) + Len(invoice) + Len(payment))
            - Cardinality({s \in Sessions : sess[s] # Idle})

(* every handler and every kind of request, on a small database; the ids
   asked for are those of the rows there are and one more *)
NextServer ==
    \/ \E s \in Sessions, n \in TeamNames, u \in Owners :
           Room > 0 /\ CreateTeamFlush(s, n, u)
    \/ \E s \in Sessions : CreateTeamCommit(s)
    \/ \E s \in Sessions, t \in 1..(Len(team) + 1), e \in Emails,
          r \in Roles \cup OtherRoles, u \in Users :
           (Room > 0 \/ ~MayInvite(t, u)) /\ InviteTeamMember(s, t, e, r, u)
    \/ \E s \in Sessions, k \in 1..(Len(invitation) + 1), u \in Users :
           JoinTeamLookup(s, k, u)
    \/ \E s \in Sessions : JoinTeamCommit(s)
    \/ \E s \in Sessions, t \in 1..(Len(team) + 1), u \in Users :
           GetTeamApiKey(s, t, u)
    \/ \E s \in Sessions, r \in UsageLogRequests \cup NegativeUsageLogRequests :
           Room > 0 /\ LogUsageAdd(s, r)
    \/ \E s \in Sessions : LogUsageCommit(s)
    \/ \E s \in Sessions, t \in BilledTeams : Room > 0 /\ GenerateInvoiceRead(s, t)
    \/ \E s \in Sessions : GenerateInvoiceCommit(s)
    \/ \E s \in Sessions, i \in 1..(Len(invoice) + 1), m \in Methods :
           Room > 0 /\ PayInvoiceLookup(s, i, m)
    \/ \E s \in Sessions : PayInvoiceCommit(s)

SpecServer == Init /\ [][NextServer]_vars

(* The handlers of the two halves share no table: those of NextMembership read
   and write team, member and invitation only, those of NextBilling usage,
   invoice, lineitem and payment only. *)
Next ==
    \/ NextMembership
    \/ NextBilling
    \/ (now < StartTime + MaxTicks /\ Tick)

Spec == Init /\ [][Next]_vars

----------------------------------------------------------------------------
(* What the claims talk about *)

IsMember(team_id, user_id) ==
    \E m \in member : m.team_id = team_id /\ m.user_id = user_id

HasRole(team_id, user_id, roles) ==
    \E m \in member : m.team_id = team_id /\ m.user_id = user_id /\ m.role \in roles

MembersOf(team_id) == {m \in member : m.team_id = team_id}

RECURSIVE SumOver(_, _)
SumOver(S, f) ==
    IF S = {} THEN 0
    ELSE LET x == CHOOSE x \in S : TRUE IN f[x] + SumOver(S \ {x}, f)

(* the sum of a column over the usage rows at the positions in S *)
UsageCost(S) == SumOver(S, [i \in S |-> usage[i].cost])
UsageAmount(S) == SumOver(S, [i \in S |-> usage[i].amount])

(* the ledger rows of a team in a window that GenerateInvoice is to aggregate *)
InWindow(team_id, period_start, period_end) ==
    {i \in 1..Len(usage) :
        /\ usage[i].team_id = team_id
        /\ usage[i].usage_type = "inference"
        /\ period_start <= usage[i].recorded_at
        /\ usage[i].recorded_at < period_end}

ItemsOf(invoice_id) == {l \in lineitem : l.invoice_id = invoice_id}

PaymentsOf(invoice_id) == {p \in 1..Len(payment) : payment[p].invoice_id = invoice_id}

----------------------------------------------------------------------------
(* C1: when GenerateInvoice aggregates the ledger of a team (the records
   logged before it, in the same calendar month), the total is the sum of
   cost over all matching records, and there is one line per user with
   matching records whose tokens_used and cost are the sums of amount and
   cost over that user's matching records.  Stated of the step in which the
   handler reads the ledger and builds the invoice. *)
C1_InvoiceSumsLedger ==
    [][\A s \in Sessions, t \in BilledTeams :
          GenerateInvoiceRead(s, t) =>
             LET rows == InWindow(t, sess'[s].period_start, sess'[s].period_end)
                 of(u) == {i \in rows : usage[i].user_id = u}
             IN /\ sess'[s].total = UsageCost(rows)
                /\ {m.user_id : m \in sess'[s].member_breakdown}
                       = {usage[i].user_id : i \in rows}
                /\ \A m \in sess'[s].member_breakdown :
                       /\ m.amount = UsageAmount(of(m.user_id))
                       /\ m.cost = UsageCost(of(m.user_id))]_vars

(* C2: of the AcceptInvitation calls racing on one token exactly one succeeds
   and exactly one Member row is created from the token: a team never has
   more Member rows than its creator's and one per accepted Invitation. *)
C2_OneMemberPerToken ==
    \A t \in TeamIds :
       Cardinality(MembersOf(t)) <=
          1 + Cardinality({k \in 1..Len(invitation) :
                              invitation[k].team_id = t /\ invitation[k].accepted})

(* C3: in every state, also while handlers are between their read and their
   commit, every stored Invoice has total equal to the sum of the cost of its
   line items, and every line item belongs to a stored Invoice. *)
C3_InvoiceWithItems ==
    /\ \A i \in 1..Len(invoice) :
          invoice[i].total = SumOver(ItemsOf(i), [l \in ItemsOf(i) |-> l.cost])
    /\ \A l \in lineitem : l.invoice_id \in 1..Len(invoice)

C3_Witness ==
    /\ \E i \in 1..Len(invoice) : Cardinality(ItemsOf(i)) = 2 /\ invoice[i].total = 5
    /\ \E s \in Sessions : sess[s].pc = "pay_invoice"

(* C4: every Team row has the Member row of its owner, with role Owner, in
   every state (also while a CreateTeam is between its flush and its commit),
   and a team has that one Member row only until an Invitation of the team is
   accepted. *)
C4_TeamHasOwner ==
    \A t \in 1..Len(team) :
       /\ [team_id |-> t, user_id |-> team[t].owner_id, role |-> "Owner"] \in member
       /\ (\A k \in 1..Len(invitation) :
              invitation[k].team_id = t => ~invitation[k].accepted)
             => Cardinality(MembersOf(t)) = 1

C4_Witness ==
    /\ Len(team) >= 1
    /\ Cardinality(MembersOf(1)) >= 2
    /\ \E s \in Sessions : sess[s].pc = "create_team"

(* C5: the accepted flag of an Invitation never goes back to false, and in
   every state in which a token is accepted an AcceptInvitation on it, by any
   user, gets Conflict (400) and changes neither Member nor Invitation. *)
C5_AcceptedIsTerminal ==
    [][/\ Len(invitation') >= Len(invitation)
       /\ \A k \in 1..Len(invitation) :
            invitation[k].accepted =>
               /\ invitation'[k].accepted
               /\ JoinTeamLookupResponse(k).status = 400
               /\ \A s \in Sessions, u \in Users :
                     JoinTeamLookup(s, k, u) =>
                        (sess'[s] = Idle /\ UNCHANGED <<member, invitation>>)]_vars

C5_Witness ==
    \E k \in 1..Len(invitation) :
       /\ invitation[k].accepted
       /\ JoinTeamLookupResponse(k).status = 400
       /\ Cardinality(MembersOf(invitation[k].team_id)) = 2
       /\ \A s \in Sessions : sess[s] = Idle

(* C6: the status of an Invoice is pending or paid; it changes only in the
   commit of a Pay on that invoice, which leaves it paid; once paid it stays
   paid whatever happens. *)
C6_PaidIsTerminal ==
    [][\A i \in 1..Len(invoice) :
          /\ i <= Len(invoice')
          /\ invoice'[i].status \in {"pending", "paid"}
          /\ invoice[i].status = "paid" => invoice'[i].status = "paid"
          /\ invoice'[i].status # invoice[i].status =>
                \E s \in Sessions : PayInvoiceCommit(s) /\ sess[s].invoice_id = i
          /\ \A s \in Sessions :
                (PayInvoiceCommit(s) /\ sess[s].invoice_id = i) =>
                   (invoice'[i].status = "paid"
                    /\ PayInvoiceResponse(s).invoice_status = "paid")]_vars

C6_Witness ==
    \E i, j \in 1..Len(invoice) :
       /\ invoice[i].status = "paid"
       /\ Cardinality(PaymentsOf(i)) = 2
       /\ invoice[j].status = "pending"
       /\ invoice[j].total > 0

(* C7: every Invitation was made by a user who is a Member of the invitation's
   team with role Owner or Admin, and Invite by anyone else -- a non-member, a
   member with role Member, an Owner or Admin of another team only -- gets
   Forbidden (403). *)
C7_OnlyOwnerOrAdminInvites ==
    /\ \A k \in 1..Len(invitation) :
          HasRole(invitation[k].team_id, invitation[k].inviter_id, {"Owner", "Admin"})
    /\ \A t \in TeamIds, u \in Users :
          InviteResponse(t, u).status =
             IF HasRole(t, u, {"Owner", "Admin"}) THEN 200 ELSE 403

C7_Witness ==
    /\ Len(team) = 2
    /\ Len(invitation) = 1
    /\ InviteResponse(1, team[2].owner_id).status = 403
    /\ \E m \in member :
          m.role = "Member" /\ InviteResponse(m.team_id, m.user_id).status = 403
    /\ \E u \in Users : ~IsMember(1, u) /\ ~IsMember(2, u)

(* C8: GetAPIKey by the owner, right after CreateTeam and ever after, succeeds
   with the api_key that CreateTeam returned. *)
C8_OwnerGetsIssuedKey ==
    [][/\ \A s \in Sessions :
            CreateTeamCommit(s) =>
               \A t \in {CreateTeamResponse(s).team_id},
                  u \in {sess[s].owner_user_id} :
                  GetTeamApiKeyResponse(t, u)' =
                     [status |-> 200, api_key |-> CreateTeamResponse(s).api_key]
       /\ \A t \in 1..Len(team) :
            \A u \in {team[t].owner_id} :
               /\ GetTeamApiKeyResponse(t, u).status = 200
               /\ GetTeamApiKeyResponse(t, u)' = GetTeamApiKeyResponse(t, u)]_vars

C8_Witness ==
    /\ Len(team) = 2
    /\ GetTeamApiKeyResponse(2, team[2].owner_id) =
          [status |-> 200, api_key |-> NewApiKey(2)]
    /\ GetTeamApiKeyResponse(1, team[1].owner_id) =
          [status |-> 200, api_key |-> NewApiKey(1)]
    /\ \E k \in 1..Len(invitation) : invitation[k].accepted

(* C9: GetAPIKey answers with a key only to a Member of the team asked for,
   and then with that team's key; a user who is no Member of an existing team
   gets Forbidden (403), whatever other teams the user belongs to. *)
C9_KeyOnlyForMembers ==
    \A t \in TeamIds, u \in Users :
       /\ GetTeamApiKeyResponse(t, u).status = 200 =>
             /\ IsMember(t, u)
             /\ t <= Len(team)
             /\ GetTeamApiKeyResponse(t, u).api_key = team[t].api_key
       /\ (t <= Len(team) /\ ~IsMember(t, u)) =>
             GetTeamApiKeyResponse(t, u) = [status |-> 403]

C9_Witness ==
    \E t1, t2 \in 1..Len(team), u \in Users :
       /\ t1 # t2
       /\ IsMember(t1, u) /\ ~IsMember(t2, u)
       /\ GetTeamApiKeyResponse(t1, u).status = 200
       /\ GetTeamApiKeyResponse(t2, u).status = 403

(* C10: GetAPIKey for a team_id that no Team has gets NotFound (404), whoever
   asks. *)
C10_NoTeamIsNotFound ==
    \A t \in TeamIds, u \in Users :
       t > Len(team) => GetTeamApiKeyResponse(t, u).status = 404

----------------------------------------------------------------------------
(* Calendar months and inclusion, as the claims about windows use them *)

(* the first instant of the calendar month containing t *)
MonthStart(t) == (t \div TicksPerMonth) * TicksPerMonth

(* the first instants of the calendar months from the server's start to t *)
MonthsUpTo(t) ==
    {m \in MonthStart(StartTime)..t : m % TicksPerMonth = 0}

(* UsageRecord i is included in invoice n: the invoice is of the record's
   team, its window contains recorded_at, and the line of the record's user
   is the sum over some set of that user's records in the window that has
   record i in it *)
Included(i, n) ==
    /\ invoice[n].team_id = usage[i].team_id
    /\ \E S \in SUBSET InWindow(usage[i].team_id, invoice[n].period_start,
                                invoice[n].period_end) :
          /\ i \in S
          /\ \A j \in S : usage[j].user_id = usage[i].user_id
          /\ \E l \in ItemsOf(n) :
                /\ l.user_id = usage[i].user_id
                /\ l.cost = UsageCost(S)
                /\ l.tokens_used = UsageAmount(S)

(* C11: every stored Invoice is of an existing Team: GenerateInvoice for a
   team_id that no Team has fails with NotFound and stores no Invoice and no
   line item. *)
C11_InvoiceTeamExists ==
    /\ \A n \in 1..Len(invoice) : invoice[n].team_id \in 1..Len(team)
    /\ \A l \in lineitem : invoice[l.invoice_id].team_id \in 1..Len(team)

(* C12: GenerateInvoice without bounds, called at any instant, takes -- and
   its commit stores -- period_start = the first instant of the calendar month
   containing the call time and period_end = the first instant of the
   following calendar month. *)
C12_DefaultWindowIsCalendarMonth ==
    [][/\ \A s \in Sessions, body \in InvoiceGenerateBodies :
            (body.period = <<>> /\ GenerateInvoice(s, body)) =>
               /\ sess'[s].period_start = MonthStart(now)
               /\ sess'[s].period_end = MonthStart(now) + TicksPerMonth
       /\ \A s \in Sessions :
            GenerateInvoiceCommit(s) =>
               /\ invoice'[Len(invoice')].period_start = sess[s].period_start
               /\ invoice'[Len(invoice')].period_end = sess[s].period_end]_vars

(* C13: GenerateInvoice called with bounds [period_start, period_end) takes
   that window and aggregates the records in it, also when the month has
   ended already. *)
C13_SuppliedWindowIsUsed ==
    [][\A s \in Sessions, body \in InvoiceGenerateBodies :
          (body.period # <<>> /\ GenerateInvoice(s, body)) =>
             /\ sess'[s].period_start = body.period[1]
             /\ sess'[s].period_end = body.period[2]
             /\ sess'[s].total =
                   UsageCost(InWindow(body.team_id, body.period[1], body.period[2]))]_vars

(* C14: the windows of two invoices of one team generated in different
   calendar months do not overlap, and no UsageRecord is included in both. *)
C14_WindowsDoNotOverlap ==
    \A a, b \in 1..Len(invoice) :
       (invoice[a].team_id = invoice[b].team_id
           /\ invoice[a].period_start < invoice[b].period_start) =>
          /\ invoice[a].period_end <= invoice[b].period_start
          /\ \A i \in 1..Len(usage) : ~(Included(i, a) /\ Included(i, b))

(* C15: no billable event is lost.  An invoice takes the month of the call, so
   a record can come into an invoice only while an invoice whose window starts
   in the record's month can still be generated; stated of the states in which
   that is over: if the calendar month of a committed matching UsageRecord
   has ended, no GenerateInvoice is under way, and the record's team has an
   invoice for every calendar month so far, then the record is included in an
   invoice. *)
C15_NoEventLost ==
    \A i \in 1..Len(usage) :
       (/\ usage[i].usage_type = "inference"
        /\ MonthStart(usage[i].recorded_at) < MonthStart(now)
        /\ \A s \in Sessions : sess[s].pc # "generate_invoice"
        /\ \A m \in MonthsUpTo(now) :
              \E n \in 1..Len(invoice) :
                 /\ invoice[n].team_id = usage[i].team_id
                 /\ invoice[n].period_start = m)
          => \E n \in 1..Len(invoice) : Included(i, n)

(* C16: the invoice reflects one snapshot of the ledger, the one GenerateInvoice
   reads: every matching record committed by then is included -- its user has a
   line, which sums that user's matching records, and the total sums them all
   -- and what the commit stores is that total and those lines, whatever has
   been committed to the ledger in between. *)
C16_InvoiceIsSnapshot ==
    [][/\ \A s \in Sessions, t \in BilledTeams :
            GenerateInvoiceRead(s, t) =>
               LET rows == InWindow(t, sess'[s].period_start, sess'[s].period_end)
               IN /\ \A i \in rows :
                        \E m \in sess'[s].member_breakdown :
                           /\ m.user_id = usage[i].user_id
                           /\ m.cost = UsageCost({j \in rows : usage[j].user_id = m.user_id})
                  /\ sess'[s].total = UsageCost(rows)
       /\ \A s \in Sessions, n \in InvoiceIds :
            (GenerateInvoiceCommit(s) /\ n = Len(invoice) + 1) =>
               /\ invoice'[n].total = sess[s].total
               /\ {[user_id |-> l.user_id, amount |-> l.tokens_used, cost |-> l.cost] :
                      l \in {x \in lineitem' : x.invoice_id = n}}
                     = sess[s].member_breakdown]_vars

(* C17: every LogUsage succeeds and its commit adds exactly one UsageRecord,
   which carries the six submitted fields verbatim, at the end of the ledger;
   rows already there are neither changed nor dropped, a row equal to one
   already there is added all the same, and nothing else writes the ledger. *)
C17_LogUsageAppends ==
    [][/\ \A s \in Sessions, r \in UsageLogRequests :
            LogUsageAdd(s, r) =>
               \A f \in DOMAIN r : sess'[s].row[f] = r[f]
       /\ \A s \in Sessions :
            LogUsageCommit(s) =>
               /\ LogUsageResponse(s).status = 200
               /\ Len(usage') = Len(usage) + 1
               /\ usage'[Len(usage')] = sess[s].row
       /\ (\A s \in Sessions : sess[s].pc # "log_usage") => Len(usage') = Len(usage)
       /\ Len(usage') >= Len(usage)
       /\ \A i \in 1..Len(usage) : usage'[i] = usage[i]]_vars

C17_Witness ==
    /\ Len(usage) = 2
    /\ usage[1] = usage[2]
    /\ \A s \in Sessions : sess[s] = Idle

(* C18: of two UsageRecords of one team, the one committed first has the
   recorded_at that is not the later one. *)
C18_CommitOrderIsTimeOrder ==
    \A i, j \in 1..Len(usage) :
       (i < j /\ usage[i].team_id = usage[j].team_id) =>
          usage[i].recorded_at <= usage[j].recorded_at

(* C19: every Pay on an existing invoice succeeds, however the lookups and
   commits of the Pay calls on it interleave: its commit adds exactly one
   Payment row of the invoice and leaves the invoice paid, so that n calls
   leave n rows; an invoice is paid exactly if it has a Payment row. *)
C19_EveryPayAddsPayment ==
    /\ [](\A s \in Sessions :
             sess[s].pc = "pay_invoice" => sess[s].invoice_id \in 1..Len(invoice))
    /\ [](\A i \in 1..Len(invoice) :
             invoice[i].status = "paid" <=> PaymentsOf(i) # {})
    /\ [][\A s \in Sessions, i \in InvoiceIds :
             (PayInvoiceCommit(s) /\ sess[s].invoice_id = i) =>
                /\ PayInvoiceResponse(s).status = 200
                /\ invoice'[i].status = "paid"
                /\ Len(payment') = Len(payment) + 1
                /\ payment'[Len(payment')].invoice_id = i
                /\ \A p \in 1..Len(payment) : payment'[p] = payment[p]]_vars

C19_Witness ==
    \E i \in 1..Len(invoice) :
       /\ invoice[i].status = "paid"
       /\ Cardinality(PaymentsOf(i)) = 1
       /\ \E s \in Sessions : sess[s].pc = "pay_invoice" /\ sess[s].invoice_id = i

(* C20: Pay on an invoice that is paid already is accepted; its commit adds
   one more Payment row of that invoice and changes no Invoice. *)
C20_PayAgainIsAdditive ==
    /\ [](\A i \in 1..Len(invoice) :
             invoice[i].status = "paid" => PayInvoiceLookupResponse(i).status = 0)
    /\ [][\A s \in Sessions, i \in InvoiceIds :
             (PayInvoiceCommit(s) /\ sess[s].invoice_id = i
                 /\ invoice[i].status = "paid") =>
                /\ PayInvoiceResponse(s) = [status |-> 200, invoice_status |-> "paid"]
                /\ invoice' = invoice
                /\ Cardinality({p \in 1..Len(payment') : payment'[p].invoice_id = i})
                      = Cardinality(PaymentsOf(i)) + 1]_vars

C20_Witness ==
    \E i \in 1..Len(invoice) :
       /\ invoice[i].status = "paid"
       /\ Cardinality(PaymentsOf(i)) = 2
       /\ \A s \in Sessions : sess[s] = Idle

(* C21: in every state an Invoice is paid exactly if it has a Payment row,
   every Payment row has status paid, and every Payment row is of a stored
   Invoice. *)
C21_PaidIffPayment ==
    /\ \A i \in 1..Len(invoice) :
          (invoice[i].status = "paid") = (\E p \in 1..Len(payment) :
                                            payment[p].invoice_id = i)
    /\ \A p \in 1..Len(payment) :
          /\ payment[p].status = "paid"
          /\ payment[p].invoice_id \in 1..Len(invoice)

C21_Witness ==
    \E i, j \in 1..Len(invoice) :
       /\ invoice[i].status = "paid" /\ PaymentsOf(i) # {}
       /\ invoice[j].status = "pending" /\ PaymentsOf(j) = {}
       /\ \E s \in Sessions : sess[s].pc = "pay_invoice" /\ sess[s].invoice_id = j

(* C22: Pay with an invoice_id that no Invoice has gets NotFound (404) and
   goes no further: no Pay is ever under way on, and no Payment row is ever
   of, an invoice_id that no Invoice has, and the step changes no Invoice. *)
C22_UnknownInvoiceNotFound ==
    /\ [](\A i \in InvoiceIds :
             i > Len(invoice) => PayInvoiceLookupResponse(i) = [status |-> 404])
    /\ [](\A s \in Sessions :
             sess[s].pc = "pay_invoice" => sess[s].invoice_id <= Len(invoice))
    /\ [](\A p \in 1..Len(payment) : payment[p].invoice_id <= Len(invoice))
    /\ [][\A s \in Sessions, i \in InvoiceIds, m \in Methods :
             (i > Len(invoice) /\ PayInvoiceLookup(s, i, m)) =>
                UNCHANGED <<invoice, payment, lineitem>>]_vars

C22_Witness ==
    /\ Len(invoice) = 1
    /\ PayInvoiceLookupResponse(2) = [status |-> 404]
    /\ PaymentsOf(1) # {}
    /\ PaymentsOf(2) = {}

(* C23: two GenerateInvoice calls for one team that read the same ledger in
   the same window get equal totals and equal per-user lines: whatever
   GenerateInvoice takes from a ledger is what every call reading that ledger
   takes; and each commit adds a separate pending Invoice and leaves the
   invoices and line items there are unchanged. *)
C23_SameLedgerSameInvoice ==
    [][/\ \A s \in Sessions, t \in BilledTeams :
            GenerateInvoiceRead(s, t) =>
               \A pick \in GroupBy(Matching(t, PeriodStart(now), PeriodEnd(now))) :
                  /\ sess'[s].member_breakdown = MemberBreakdown(pick)
                  /\ sess'[s].total = SumCost(MemberBreakdown(pick))
       /\ \A s \in Sessions :
            GenerateInvoiceCommit(s) =>
               /\ Len(invoice') = Len(invoice) + 1
               /\ invoice'[Len(invoice')].status = "pending"
               /\ \A n \in 1..Len(invoice) : invoice'[n] = invoice[n]
               /\ lineitem \subseteq lineitem']_vars

(* C24: GenerateInvoice for a team without a matching UsageRecord in the
   window succeeds with total 0 and no lines, and its commit stores an Invoice
   with total 0, status pending and no line item. *)
C24_NoUsageZeroInvoice ==
    [][/\ \A s \in Sessions, t \in BilledTeams :
            (GenerateInvoiceRead(s, t)
                /\ InWindow(t, sess'[s].period_start, sess'[s].period_end) = {}) =>
               /\ sess'[s].total = 0
               /\ sess'[s].member_breakdown = {}
       /\ \A s \in Sessions, n \in 1..(Len(invoice) + 1) :
            (GenerateInvoiceCommit(s) /\ n = Len(invoice) + 1
                /\ sess[s].member_breakdown = {}) =>
               /\ GenerateInvoiceResponse(s).status = 200
               /\ invoice'[n].total = 0
               /\ invoice'[n].status = "pending"
               /\ {l \in lineitem' : l.invoice_id = n} = {}]_vars

C24_Witness ==
    \E n \in 1..Len(invoice) :
       /\ invoice[n].team_id \in 1..Len(team)
       /\ invoice[n].total = 0
       /\ invoice[n].status = "pending"
       /\ ItemsOf(n) = {}

(* C25: when GenerateInvoice aggregates, it has exactly one line for every
   user with a matching UsageRecord of the team in the window and no line for
   anyone else, and its commit stores exactly one line item for each of those
   lines. *)
C25_OneLinePerUser ==
    [][/\ \A s \in Sessions, t \in BilledTeams :
            GenerateInvoiceRead(s, t) =>
               LET rows == InWindow(t, sess'[s].period_start, sess'[s].period_end)
               IN /\ {m.user_id : m \in sess'[s].member_breakdown}
                        = {usage[i].user_id : i \in rows}
                  /\ \A m1, m2 \in sess'[s].member_breakdown :
                        m1.user_id = m2.user_id => m1 = m2
       /\ \A s \in Sessions, n \in 1..(Len(invoice) + 1) :
            (GenerateInvoiceCommit(s) /\ n = Len(invoice) + 1) =>
               /\ {l.user_id : l \in {x \in lineitem' : x.invoice_id = n}}
                     = {m.user_id : m \in sess[s].member_breakdown}
               /\ \A l1, l2 \in {x \in lineitem' : x.invoice_id = n} :
                     l1.user_id = l2.user_id => l1 = l2]_vars

C25_Witness ==
    \E n \in 1..Len(invoice) :
       /\ Len(usage) = 2
       /\ usage[1].user_id = usage[2].user_id
       /\ usage[1] # usage[2]
       /\ Cardinality(ItemsOf(n)) = 1
       /\ \A i \in 1..2 : usage[i].team_id = invoice[n].team_id
                             /\ usage[i].usage_type = "inference"

(* C26: every accepted Invitation has a Member row with the invitation's
   team_id and role, and the flag comes up only in the commit of an
   AcceptInvitation on that token, in the very step in which the Member row
   (invitation.team_id, the accepting user, invitation.role) comes up. *)
C26_AcceptedHasMember ==
    /\ [](\A k \in 1..Len(invitation) :
             invitation[k].accepted =>
                \E m \in member : /\ m.team_id = invitation[k].team_id
                                  /\ m.role = invitation[k].role)
    /\ [][\A k \in 1..Len(invitation) :
             (~invitation[k].accepted /\ invitation'[k].accepted) =>
                \E s \in Sessions :
                   /\ JoinTeamCommit(s)
                   /\ sess[s].invitation_token = k
                   /\ [team_id |-> invitation[k].team_id,
                       user_id |-> sess[s].user_id,
                       role |-> invitation[k].role] \in member' \ member]_vars

C26_Witness ==
    \E k \in 1..Len(invitation) :
       /\ invitation[k].accepted
       /\ invitation[k].role = "Admin"
       /\ \E m \in member : /\ m.team_id = invitation[k].team_id
                            /\ m.role = "Admin"
                            /\ m.user_id # team[m.team_id].owner_id

(* C27: there is at most one Member row per (team_id, user_id), and no Member
   row is ever changed or removed: an AcceptInvitation by a user who is a
   Member of the team already adds no row and changes no role. *)
C27_OneRowPerMember ==
    /\ [](\A m1, m2 \in member :
             (m1.team_id = m2.team_id /\ m1.user_id = m2.user_id) => m1 = m2)
    /\ [][/\ member \subseteq member'
          /\ \A s \in Sessions :
               (JoinTeamCommit(s) /\ IsMember(sess[s].team_id, sess[s].user_id)) =>
                  member' = member]_vars

C27_Witness ==
    \E s \in Sessions :
       /\ sess[s].pc = "join_team"
       /\ sess[s].user_id = team[sess[s].team_id].owner_id
       /\ sess[s].role # "Owner"
       /\ IsMember(sess[s].team_id, sess[s].user_id)

(* C28: AcceptInvitation ends in NotFound (token unknown), Conflict
   (invitation accepted already) or success, nothing else: an AcceptInvitation
   that found its token not yet accepted succeeds, whoever the user is. *)
C28_JoinOutcomes ==
    /\ \A k \in Tokens : JoinTeamLookupResponse(k).status \in {404, 400, 0}
    /\ \A s \in Sessions :
          sess[s].pc = "join_team" => JoinTeamCommitResponse(s).status = 200

(* C29: no step changes or removes a UsageRecord; the ledger grows by one
   record at a time and only in the commit of a LogUsage. *)
C29_LedgerAppendOnly ==
    [][/\ Len(usage') >= Len(usage)
       /\ \A i \in 1..Len(usage) : usage'[i] = usage[i]
       /\ Len(usage') # Len(usage) =>
             /\ Len(usage') = Len(usage) + 1
             /\ \E s \in Sessions : LogUsageCommit(s)]_vars

C29_Witness ==
    /\ Len(usage) = 1
    /\ \E n \in 1..Len(invoice) : ItemsOf(n) # {}

(* C30: team_id, period_start, period_end and total of a stored Invoice and
   its set of line items never change; its status changes only in the commit
   of a Pay on that invoice, which changes no other invoice. *)
C30_InvoiceImmutable ==
    [][\A n \in 1..Len(invoice) :
          /\ n <= Len(invoice')
          /\ [invoice'[n] EXCEPT !.status = invoice[n].status] = invoice[n]
          /\ {l \in lineitem' : l.invoice_id = n} = ItemsOf(n)
          /\ invoice'[n].status # invoice[n].status =>
                \E s \in Sessions : PayInvoiceCommit(s) /\ sess[s].invoice_id = n]_vars

C30_Witness ==
    \E n \in 1..Len(invoice) :
       /\ invoice[n].total = 0
       /\ InWindow(invoice[n].team_id, invoice[n].period_start,
                   invoice[n].period_end) # {}

(* C31: every stored UsageRecord is of an existing Team: LogUsage for a
   team_id that no Team has fails with NotFound and appends nothing. *)
C31_UsageTeamExists ==
    \A i \in 1..Len(usage) : usage[i].team_id \in 1..Len(team)

(* C32: no stored UsageRecord has a negative amount or cost, and no Invoice or
   line item a negative total, cost or tokens_used: LogUsage with a negative
   amount or cost is rejected and appends nothing. *)
C32_NothingNegative ==
    /\ \A i \in 1..Len(usage) : usage[i].amount >= 0 /\ usage[i].cost >= 0
    /\ \A n \in 1..Len(invoice) : invoice[n].total >= 0
    /\ \A l \in lineitem : l.cost >= 0 /\ l.tokens_used >= 0

(* C33: every Member row is the row of its team's creator, with role Owner,
   or has the team and the role of an accepted Invitation; the Member table
   changes only by the one row CreateTeam adds for the creator and by the one
   row the commit of an AcceptInvitation adds with the invitation's team and
   role. *)
C33_MembersByCreationOrInvitation ==
    /\ [](\A m \in member :
             /\ m.team_id \in 1..Len(team)
             /\ \/ (m.user_id = team[m.team_id].owner_id /\ m.role = "Owner")
                \/ \E k \in 1..Len(invitation) :
                      /\ invitation[k].accepted
                      /\ invitation[k].team_id = m.team_id
                      /\ invitation[k].role = m.role)
    /\ [][member' # member =>
             /\ member \subseteq member'
             /\ \E s \in Sessions :
                   \/ /\ CreateTeamCommit(s)
                      /\ member' \ member =
                            {[team_id |-> Len(team) + 1,
                              user_id |-> sess[s].owner_user_id, role |-> "Owner"]}
                   \/ /\ JoinTeamCommit(s)
                      /\ member' \ member =
                            {[team_id |-> invitation[sess[s].invitation_token].team_id,
                              user_id |-> sess[s].user_id,
                              role |-> invitation[sess[s].invitation_token].role]}]_vars

C33_Witness ==
    \E m \in member :
       /\ m.role = "Owner"
       /\ m.user_id # team[m.team_id].owner_id
       /\ \E k \in 1..Len(invitation) :
             /\ invitation[k].accepted
             /\ invitation[k].team_id = m.team_id
             /\ invitation[k].role = "Owner"

(* C34: the role of every Member and of every Invitation is Owner, Admin or
   Member. *)
C34_RolesAreKnown ==
    /\ \A m \in member : m.role \in Roles
    /\ \A k \in 1..Len(invitation) : invitation[k].role \in Roles

(* C35: every line GenerateInvoice takes is the amount and cost of an
   "inference" record of the team, the total is the sum of the lines, and a
   user without an "inference" record of the team has no line: records of
   another usage_type add nothing. *)
C35_OnlyInference ==
    [][\A s \in Sessions, t \in BilledTeams :
          GenerateInvoiceRead(s, t) =>
             /\ \A m \in sess'[s].member_breakdown :
                   \E i \in 1..Len(usage) :
                      /\ usage[i].usage_type = "inference"
                      /\ usage[i].team_id = t
                      /\ usage[i].user_id = m.user_id
                      /\ usage[i].amount = m.amount
                      /\ usage[i].cost = m.cost
             /\ sess'[s].total =
                   SumOver(sess'[s].member_breakdown,
                           [m \in sess'[s].member_breakdown |-> m.cost])
             /\ \A i \in 1..Len(usage) :
                   (usage[i].team_id = t /\ usage[i].usage_type # "inference"
                       /\ \A j \in 1..Len(usage) :
                             (usage[j].team_id = t /\ usage[j].user_id = usage[i].user_id)
                                => usage[j].usage_type # "inference")
                      => \A m \in sess'[s].member_breakdown :
                            m.user_id # usage[i].user_id]_vars

C35_Witness ==
    \E n \in 1..Len(invoice), i, j \in 1..Len(usage) :
       /\ usage[i].team_id = invoice[n].team_id
       /\ usage[i].usage_type = "training"
       /\ usage[j].team_id = invoice[n].team_id
       /\ usage[j].usage_type = "inference"
       /\ usage[j].user_id # usage[i].user_id
       /\ {l.user_id : l \in ItemsOf(n)} = {usage[j].user_id}
       /\ invoice[n].total = usage[j].cost

(* C36: the user of every stored UsageRecord is a Member of the record's
   team (Member rows are never removed, so: was one when the record was
   committed, or became one since). *)
C36_OnlyMembersAccrue ==
    \A i \in 1..Len(usage) : IsMember(usage[i].team_id, usage[i].user_id)

(* what GenerateInvoice may take for a team from a ledger, computed on the
   ledger given *)
PossibleBreakdowns(ledger, team_id, period_start, period_end) ==
    LET rows == {i \in 1..Len(ledger) :
                    /\ ledger[i].team_id = team_id
                    /\ ledger[i].usage_type = "inference"
                    /\ period_start <= ledger[i].recorded_at
                    /\ ledger[i].recorded_at < period_end}
        users == {ledger[i].user_id : i \in rows}
    IN {{[user_id |-> u, amount |-> ledger[f[u]].amount, cost |-> ledger[f[u]].cost] :
            u \in users} :
          f \in {g \in [users -> rows] : \A u \in users : ledger[g[u]].user_id = u}}

(* the records of one team *)
OwnRecords(team_id) == SelectSeq(usage, LAMBDA r : r.team_id = team_id)

(* what the callers of a team can get to see now: what GenerateInvoice may
   take for the team, and what GetAPIKey answers for it *)
View(team_id) ==
    [invoices |-> {MemberBreakdown(pick) :
                      pick \in GroupBy(Matching(team_id, PeriodStart(now), PeriodEnd(now)))},
     keys |-> [u \in Users |-> GetTeamApiKeyResponse(team_id, u)]]

(* C37: teams are isolated.  What GenerateInvoice takes for team A is something
   it may take from A's own records alone; and a LogUsage, Invite,
   AcceptInvitation, GenerateInvoice or Pay for another team B changes nothing
   of what GenerateInvoice may take and GetAPIKey answers for A.  So runs that
   differ in the calls for B only go through the same views of A. *)
C37_TeamsIsolated ==
    [][/\ \A s \in Sessions, a \in BilledTeams :
            GenerateInvoiceRead(s, a) =>
               sess'[s].member_breakdown \in
                  PossibleBreakdowns(OwnRecords(a), a, sess'[s].period_start,
                                     sess'[s].period_end)
       /\ \A a, b \in BilledTeams :
            (/\ a # b
             /\ \/ \E s \in Sessions : LogUsageCommit(s) /\ sess[s].row.team_id = b
                \/ \E s \in Sessions : GenerateInvoiceCommit(s) /\ sess[s].team_id = b
                \/ \E s \in Sessions :
                      /\ PayInvoiceCommit(s)
                      /\ invoice[sess[s].invoice_id].team_id = b
                \/ \E s \in Sessions : JoinTeamCommit(s) /\ sess[s].team_id = b
                \/ /\ Len(invitation') > Len(invitation)
                   /\ invitation'[Len(invitation')].team_id = b)
               => View(a)' = View(a)]_vars

C37_Witness ==
    /\ Len(usage) = 2
    /\ usage[1].team_id # usage[2].team_id
    /\ \A i \in 1..2 : usage[i].usage_type = "inference"
    /\ View(1).invoices # View(2).invoices

(* C38: the amount of every Payment row is the total of the invoice it pays. *)
C38_PaymentAmountIsTotal ==
    \A p \in 1..Len(payment) :
       payment[p].invoice_id \in 1..Len(invoice) =>
          payment[p].amount = invoice[payment[p].invoice_id].total

====
